---- MODULE Spec2Model ----
(***************************************************************************)
(* A model of install.py: the cell-library registry, the three notebook    *)
(* directives (%%library, %import_library, %export_library), the import    *)
(* hook (CellLibraryFinder / CellLibraryLoader) and the installer, which   *)
(* loads the module body, writes cell_library.py and loads it again.       *)
(*                                                                         *)
(* Text is modelled as a sequence of one-character strings, so that        *)
(* str.strip, str.split and str.split('.') are computed as Python computes *)
(* them.  A library's source text is modelled as the sequence of its       *)
(* top-level statements: an assignment, a raise, or a line that does not   *)
(* compile.                                                                *)
(***************************************************************************)
EXTENDS Integers, Sequences, FiniteSets, TLC

VARIABLES
    loads,        \* how many times the module body has been executed
    registries,   \* registries[g]: the _LIBRARY_REGISTRY dict made by load g
    magics,       \* the load whose CellLibraryMagics the shell has registered (0: none)
    meta_path,    \* sys.meta_path, front first
    sys_modules,  \* sys.modules
    user_ns,      \* self.shell.user_ns: the caller's top-level scope
    files,        \* the file system: path -> contents
    held,         \* the ModuleSpec last returned by a direct find_spec call
    module_ns,    \* __dict__ of the module last handed to exec_module
    last          \* what the last call printed, returned and raised

vars == <<loads, registries, magics, meta_path, sys_modules, user_ns, files,
          held, module_ns, last>>

----------------------------------------------------------------------------
(* Bounds of the model.                                                    *)

\* At most this many library entries exist in the session, all registries together.
MaxLibs == 2

\* The installer is run at most this many times in one session.
MaxInstalls == 1

----------------------------------------------------------------------------
(* Text.                                                                   *)

SPACE == " "
DOT == "."

sCell == <<"c", "e", "l", "l">>
nA    == <<"a">>
nCsv  == <<"c", "s", "v">>
nDot  == <<"a", ".", "b">>
nSp   == <<"a", " ", "b">>
pOut  == <<"p">>
pBad  == <<"d", "/", "p">>

\* The library names the user marks.
Names == {nA, nCsv, nDot, nSp}

\* Python dicts: functions whose domain is the set of keys.
EmptyDict == <<>>

Put(d, k, v) == [x \in (DOMAIN d) \cup {k} |-> IF x = k THEN v ELSE d[x]]

Del(d, k) == [x \in (DOMAIN d) \ {k} |-> d[x]]

RECURSIVE lstrip(_)
lstrip(s) == IF s # <<>> /\ Head(s) = SPACE THEN lstrip(Tail(s)) ELSE s

RECURSIVE rstrip(_)
rstrip(s) ==
    IF s # <<>> /\ s[Len(s)] = SPACE THEN rstrip(SubSeq(s, 1, Len(s) - 1)) ELSE s

\* str.strip()
strip(s) == rstrip(lstrip(s))

\* str.split(sep): every occurrence of sep separates two (possibly empty) pieces.
RECURSIVE split_on(_, _, _)
split_on(s, sep, cur) ==
    IF s = <<>> THEN <<cur>>
    ELSE IF Head(s) = sep THEN <<cur>> \o split_on(Tail(s), sep, <<>>)
    ELSE split_on(Tail(s), sep, Append(cur, Head(s)))

\* str.split() without argument: runs of whitespace separate, no empty pieces.
split(s) == SelectSeq(split_on(s, SPACE, <<>>), LAMBDA w : w # <<>>)

\* fullname.split('.')
split_dot(s) == split_on(s, DOT, <<>>)

----------------------------------------------------------------------------
(* Source texts and exec().                                                *)

Assign(v, n) == [op |-> "assign", var |-> v, val |-> n]
Raise(cls)   == [op |-> "raise", var |-> cls, val |-> 0]
BadSyntax    == [op |-> "syntax", var |-> "", val |-> 0]

SrcOne    == <<Assign("x", 1)>>
SrcTwo    == <<Assign("x", 2), Assign("y", 1)>>
SrcRaise  == <<Assign("y", 2), Raise("ValueError")>>
SrcExit   == <<Assign("x", 3), Raise("SystemExit")>>
SrcSyntax == <<Assign("y", 3), BadSyntax>>

\* The cell bodies the user marks.
Sources == {SrcOne, SrcTwo, SrcRaise, SrcExit, SrcSyntax}

\* The classes caught by "except Exception"; SystemExit derives from
\* BaseException only.
ExceptionClasses == {"ValueError", "SyntaxError"}

\* Running compiled statements in order against namespace ns.
RECURSIVE run(_, _)
run(code, ns) ==
    IF code = <<>> THEN [ns |-> ns, exc |-> "none"]
    ELSE IF Head(code).op = "raise" THEN [ns |-> ns, exc |-> Head(code).var]
    ELSE run(Tail(code), Put(ns, Head(code).var, Head(code).val))

\* exec(code, ns): compiles the whole text first, then runs it; the bindings
\* made before a raise stay in ns.
exec(code, ns) ==
    IF \E i \in 1..Len(code) : code[i].op = "syntax"
    THEN [ns |-> ns, exc |-> "SyntaxError"]
    ELSE run(code, ns)

----------------------------------------------------------------------------
(* The directives of CellLibraryMagics, as functions of what they read.    *)

\* The registry the registered directives read and write.
Registry == registries[magics]

\* The last call as its caller sees it: the operation and its argument, the
\* message printed (with the library name and error text in it), the exception
\* that escaped the call, for an import the kind of module it was served with,
\* and for a find_spec call the class (load) of the finder called.
Report(op, arg, msg, lib, err, raised, by, cls) ==
    [op |-> op, arg |-> arg, msg |-> msg, lib |-> lib, err |-> err,
     raised |-> raised, by |-> by, cls |-> cls]

\* library with "first write wins": a name already stored keeps its text.
library_keeps_first(reg, line, cell) ==
    LET lib_name == strip(line) IN
    IF lib_name = <<>>
    THEN [reg |-> reg, msg |-> "usage", lib |-> lib_name]
    ELSE IF lib_name \in DOMAIN reg
    THEN [reg |-> reg, msg |-> "stored", lib |-> lib_name]
    ELSE [reg |-> Put(reg, lib_name, cell), msg |-> "stored", lib |-> lib_name]

\* library testing the raw line, not the stripped name, for emptiness.
library_tests_raw_line(reg, line, cell) ==
    LET lib_name == strip(line) IN
    IF line = <<>>
    THEN [reg |-> reg, msg |-> "usage", lib |-> lib_name]
    ELSE [reg |-> Put(reg, lib_name, cell), msg |-> "stored", lib |-> lib_name]

\* %%library <line> with cell body `cell`, against registry reg.
library(reg, line, cell) ==
    LET lib_name == strip(line) IN
    IF lib_name = <<>>
    THEN [reg |-> reg, msg |-> "usage", lib |-> lib_name]
    ELSE [reg |-> Put(reg, lib_name, cell), msg |-> "stored", lib |-> lib_name]

\* import_library without its try/except: whatever the code raises escapes.
import_library_without_try(reg, ns, line) ==
    LET lib_name == strip(line) IN
    IF lib_name \notin DOMAIN reg
    THEN [ns |-> ns, msg |-> "not_found", lib |-> lib_name, err |-> "",
          raised |-> "none"]
    ELSE LET r == exec(reg[lib_name], ns) IN
         IF r.exc = "none"
         THEN [ns |-> r.ns, msg |-> "imported", lib |-> lib_name, err |-> "",
               raised |-> "none"]
         ELSE [ns |-> r.ns, msg |-> "", lib |-> lib_name, err |-> "",
               raised |-> r.exc]

\* %import_library <line>, against registry reg and caller scope ns.
import_library(reg, ns, line) ==
    LET lib_name == strip(line) IN
    IF lib_name \notin DOMAIN reg
    THEN [ns |-> ns, msg |-> "not_found", lib |-> lib_name, err |-> "",
          raised |-> "none"]
    ELSE LET r == exec(reg[lib_name], ns) IN
         IF r.exc = "none"
         THEN [ns |-> r.ns, msg |-> "imported", lib |-> lib_name, err |-> "",
               raised |-> "none"]
         ELSE IF r.exc \in ExceptionClasses
         THEN [ns |-> r.ns, msg |-> "error_importing", lib |-> lib_name,
               err |-> r.exc, raised |-> "none"]
         ELSE [ns |-> r.ns, msg |-> "", lib |-> lib_name, err |-> "",
               raised |-> r.exc]

\* The paths whose directory exists; open(path, "w") raises OSError elsewhere.
Openable == {pOut}

\* What the disk does with a write once the file is open.
IOOutcomes == {"ok", "write_fails"}

\* write_file opening with mode "a": the text lands after what the file held.
write_file_appends(fs, file_path, code, io) ==
    LET old == IF file_path \in DOMAIN fs THEN fs[file_path] ELSE <<>> IN
    IF file_path \notin Openable THEN [fs |-> fs, exc |-> "OSError"]
    ELSE IF io = "ok" THEN [fs |-> Put(fs, file_path, old \o code), exc |-> "none"]
    ELSE [fs |-> Put(fs, file_path, old \o SubSeq(code, 1, Len(code) - 1)),
          exc |-> "OSError"]

\* open(file_path, "w") then f.write(code): opening truncates; a write that
\* fails leaves a part of the text behind.
write_file(fs, file_path, code, io) ==
    IF file_path \notin Openable THEN [fs |-> fs, exc |-> "OSError"]
    ELSE IF io = "ok" THEN [fs |-> Put(fs, file_path, code), exc |-> "none"]
    ELSE [fs |-> Put(fs, file_path, SubSeq(code, 1, Len(code) - 1)),
          exc |-> "OSError"]

\* %export_library <line>, against registry reg and file system fs.
export_library(reg, fs, line, io) ==
    LET parts == split(strip(line)) IN
    IF Len(parts) # 2
    THEN [fs |-> fs, msg |-> "usage", lib |-> <<>>, err |-> ""]
    ELSE LET lib_name  == parts[1]
             file_path == parts[2] IN
         IF lib_name \notin DOMAIN reg
         THEN [fs |-> fs, msg |-> "not_found", lib |-> lib_name, err |-> ""]
         ELSE LET w == write_file(fs, file_path, reg[lib_name], io) IN
              IF w.exc = "none"
              THEN [fs |-> w.fs, msg |-> "exported", lib |-> lib_name, err |-> ""]
              ELSE [fs |-> w.fs, msg |-> "error_exporting", lib |-> lib_name,
                    err |-> w.exc]

----------------------------------------------------------------------------
(* The import hook: CellLibraryLoader and CellLibraryFinder.               *)

\* find_spec's "return None".
None == [kind |-> "None", name |-> <<>>, lib_name |-> <<>>, code |-> <<>>,
         origin |-> ""]

\* ModuleSpec(fullname, CellLibraryLoader(lib_name, code), is_package=False)
CellLibraryLoader(fullname, lib_name, code) ==
    [kind |-> "spec", name |-> fullname, lib_name |-> lib_name, code |-> code,
     origin |-> "registry"]

\* An entry of sys.modules.  all: __all__ of the pseudo-package; ns: the
\* module's __dict__; cls: the load whose finder made it; is_package: whether it
\* has a __path__.
Module(origin, all, ns, cls) ==
    [origin |-> origin, all |-> all, ns |-> ns, cls |-> cls, is_package |-> FALSE]

\* exec_module running the code against a scratch dict, not the module's.
exec_module_into_scratch(loader, ns) ==
    LET r == exec(loader.code, EmptyDict) IN
    IF r.exc = "none"
    THEN [ns |-> ns, raised |-> "none", lib |-> <<>>, err |-> ""]
    ELSE IF r.exc \in ExceptionClasses
    THEN [ns |-> ns, raised |-> "ImportError", lib |-> loader.lib_name,
          err |-> r.exc]
    ELSE [ns |-> ns, raised |-> r.exc, lib |-> <<>>, err |-> ""]

\* exec_module without its try/except: the code's own exception escapes.
exec_module_without_try(loader, ns) ==
    LET r == exec(loader.code, ns) IN
    [ns |-> r.ns, raised |-> r.exc, lib |-> <<>>, err |-> ""]

\* CellLibraryLoader.exec_module: the stored code runs against the module's
\* __dict__; "except Exception" turns what it catches into ImportError.
exec_module(loader, ns) ==
    LET r == exec(loader.code, ns) IN
    IF r.exc = "none"
    THEN [ns |-> r.ns, raised |-> "none", lib |-> <<>>, err |-> ""]
    ELSE IF r.exc \in ExceptionClasses
    THEN [ns |-> r.ns, raised |-> "ImportError", lib |-> loader.lib_name,
          err |-> r.exc]
    ELSE [ns |-> r.ns, raised |-> r.exc, lib |-> <<>>, err |-> ""]

\* find_spec taking everything after "cell." as the library name.
find_spec_joins_rest(reg, fullname, sm, cls) ==
    LET parts == split_dot(fullname)
        rest  == SubSeq(fullname, Len(sCell) + 2, Len(fullname)) IN
    IF parts[1] = sCell
    THEN IF Len(parts) = 1
         THEN [spec |-> None,
               sm |-> Put(sm, fullname, Module("pseudo", DOMAIN reg, EmptyDict, cls))]
         ELSE IF rest \in DOMAIN reg
         THEN [spec |-> CellLibraryLoader(fullname, rest, reg[rest]), sm |-> sm]
         ELSE [spec |-> None, sm |-> sm]
    ELSE IF fullname \in DOMAIN reg
         THEN [spec |-> CellLibraryLoader(fullname, fullname, reg[fullname]),
               sm |-> sm]
         ELSE [spec |-> None, sm |-> sm]

\* CellLibraryFinder.find_spec(fullname) of the finder made by load cls, whose
\* module global _LIBRARY_REGISTRY is reg; sm is sys.modules.
find_spec(reg, fullname, sm, cls) ==
    LET parts == split_dot(fullname) IN
    IF parts[1] = sCell
    THEN IF Len(parts) = 1
         THEN [spec |-> None,
               sm |-> Put(sm, fullname, Module("pseudo", DOMAIN reg, EmptyDict, cls))]
         ELSE IF Len(parts) = 2 /\ parts[2] \in DOMAIN reg
         THEN [spec |-> CellLibraryLoader(fullname, parts[2], reg[parts[2]]),
               sm |-> sm]
         ELSE [spec |-> None, sm |-> sm]
    ELSE IF fullname \in DOMAIN reg
         THEN [spec |-> CellLibraryLoader(fullname, fullname, reg[fullname]),
               sm |-> sm]
         ELSE [spec |-> None, sm |-> sm]

\* An entry of sys.meta_path: a CellLibraryFinder of the class made by load
\* cls, or the interpreter's own finders (builtin, frozen, path).
Finder(cls) == [kind |-> "cell", cls |-> cls]
StdFinders  == [kind |-> "std", cls |-> 0]

\* isinstance(f, CellLibraryFinder), CellLibraryFinder being the class that
\* load cls has just defined: each execution of the class statement makes a
\* new class, and an instance of an earlier one is no instance of it.
IsInstance(f, cls) == f.kind = "cell" /\ f.cls = cls

\* InsertFinder putting the finder behind the finders already there.
InsertFinder_appends(mp, cls) ==
    IF \E i \in 1..Len(mp) : IsInstance(mp[i], cls)
    THEN mp
    ELSE mp \o <<Finder(cls)>>

\* if not any(isinstance(f, CellLibraryFinder) for f in sys.meta_path):
\*     sys.meta_path.insert(0, CellLibraryFinder())
InsertFinder(mp, cls) ==
    IF \E i \in 1..Len(mp) : IsInstance(mp[i], cls)
    THEN mp
    ELSE <<Finder(cls)>> \o mp

----------------------------------------------------------------------------
(* The interpreter's import statement, which drives sys.meta_path.         *)

\* Modules the interpreter's own finders resolve.
RealModules == {nCsv}

StdFindSpec(fullname, sm) ==
    IF fullname \in RealModules
    THEN [spec |-> [kind |-> "spec", name |-> fullname, lib_name |-> <<>>,
                    code |-> <<>>, origin |-> "real"],
          sm |-> sm]
    ELSE [spec |-> None, sm |-> sm]

\* The finders of mp are asked in order; the first spec that is not None wins.
RECURSIVE MetaFind(_, _, _)
MetaFind(mp, fullname, sm) ==
    IF mp = <<>> THEN [spec |-> None, sm |-> sm]
    ELSE LET f == Head(mp)
             r == IF f.kind = "cell"
                  THEN find_spec(registries[f.cls], fullname, sm, f.cls)
                  ELSE StdFindSpec(fullname, sm)
         IN  IF r.spec.kind # "None" THEN r
             ELSE MetaFind(Tail(mp), fullname, r.sm)

\* fullname.rpartition('.')[0]
RECURSIVE Parent(_)
Parent(s) ==
    IF s = <<>> THEN <<>>
    ELSE IF s[Len(s)] = DOT THEN SubSeq(s, 1, Len(s) - 1)
    ELSE Parent(SubSeq(s, 1, Len(s) - 1))

\* The module a spec loads: the loader runs against a fresh __dict__, and a
\* module whose execution raises is taken out of sys.modules again.
LoadSpec(spec, sm) ==
    IF spec.origin = "real"
    THEN [sm |-> Put(sm, spec.name, Module("real", {}, EmptyDict, 0)),
          raised |-> "none", by |-> "real"]
    ELSE LET e == exec_module(spec, EmptyDict) IN
         IF e.raised = "none"
         THEN [sm |-> Put(sm, spec.name, Module("registry", {}, e.ns, 0)),
               raised |-> "none", by |-> "registry"]
         ELSE [sm |-> Del(sm, spec.name), raised |-> e.raised, by |-> ""]

\* import <name>: sys.modules first, then the parent package, then the finders.
RECURSIVE FindAndLoad(_, _)
FindAndLoad(name, sm) ==
    IF name \in DOMAIN sm
    THEN [sm |-> sm, raised |-> "none", by |-> sm[name].origin]
    ELSE LET p  == Parent(name)
             rp == IF p # <<>> /\ p \notin DOMAIN sm
                   THEN FindAndLoad(p, sm)
                   ELSE [sm |-> sm, raised |-> "none", by |-> ""]
         IN  IF rp.raised # "none" THEN [rp EXCEPT !.by = ""]
             ELSE IF p # <<>> /\ name \in DOMAIN rp.sm
             THEN [sm |-> rp.sm, raised |-> "none", by |-> rp.sm[name].origin]
             ELSE IF p # <<>> /\ ~rp.sm[p].is_package
             THEN [sm |-> rp.sm, raised |-> "ModuleNotFoundError", by |-> ""]
             ELSE LET r == MetaFind(meta_path, name, rp.sm) IN
                  IF r.spec.kind = "None"
                  THEN [sm |-> r.sm, raised |-> "ModuleNotFoundError", by |-> ""]
                  ELSE LoadSpec(r.spec, r.sm)

----------------------------------------------------------------------------
(* The state machine.                                                      *)

pInstall == <<"c", "e", "l", "l", "_", "l", "i", "b", "r", "a", "r", "y",
              ".", "p", "y">>

\* cell_library_source, the text the installer writes.
ModuleSource == <<[op |-> "module", var |-> "cell_library", val |-> 0]>>

Init ==
    /\ loads = 0
    /\ registries = <<>>
    /\ magics = 0
    /\ meta_path = <<StdFinders>>
    /\ sys_modules = EmptyDict
    /\ user_ns = EmptyDict
    /\ files = EmptyDict
    /\ held = None
    /\ module_ns = EmptyDict
    /\ last = Report("init", <<>>, "", <<>>, "", "none", "", 0)

\* One execution of the module body: a new _LIBRARY_REGISTRY, the new
\* CellLibraryMagics registered with the shell, the guarded insertion of a
\* finder of the new CellLibraryFinder class.
LoadBody(st) ==
    LET g == st.loads + 1 IN
    [loads      |-> g,
     registries |-> Append(st.registries, EmptyDict),
     magics     |-> g,
     meta_path  |-> InsertFinder(st.meta_path, g)]

\* Running install.py: its own body, the write of cell_library.py, and
\* %run cell_library.py, which executes the same body again.
Install ==
    /\ loads < MaxInstalls + MaxInstalls
    /\ LET st0 == [loads |-> loads, registries |-> registries,
                   magics |-> magics, meta_path |-> meta_path]
           st1 == LoadBody(st0)
           st2 == LoadBody(st1)
       IN  /\ loads' = st2.loads
           /\ registries' = st2.registries
           /\ magics' = st2.magics
           /\ meta_path' = st2.meta_path
    /\ files' = Put(files, pInstall, ModuleSource)
    /\ last' = Report("install", <<>>, "loaded", <<>>, "", "none", "", 0)
    /\ UNCHANGED <<sys_modules, user_ns, held, module_ns>>

\* What the user types after %%library to mark a name of S: the name ("a"
\* with blanks around it), or blanks only.
LibraryLines(S) ==
    (S \ {nA}) \cup {<<SPACE>> \o n \o <<SPACE>> : n \in S \cap {nA}}
        \cup {<<SPACE>>}

TotalLibs(regs) ==
    Cardinality({<<g, n>> \in (1..Len(regs)) \X Names : n \in DOMAIN regs[g]})

\* %%library
Library(line, cell) ==
    /\ magics # 0
    /\ LET r == library(Registry, line, cell) IN
       /\ registries' = [registries EXCEPT ![magics] = r.reg]
       /\ TotalLibs(registries') <= MaxLibs
       /\ last' = Report("library", line, r.msg, r.lib, "", "none", "", 0)
    /\ UNCHANGED <<loads, magics, meta_path, sys_modules, user_ns, files, held,
                   module_ns>>

\* %import_library
ImportLibrary(line) ==
    /\ magics # 0
    /\ LET r == import_library(Registry, user_ns, line) IN
       /\ user_ns' = r.ns
       /\ last' = Report("import_library", line, r.msg, r.lib, r.err, r.raised,
                         "", 0)
    /\ UNCHANGED <<loads, registries, magics, meta_path, sys_modules, files,
                   held, module_ns>>

Paths == {pOut, pBad}

\* What the user types after %export_library: a name of S and a path, or one
\* word only.
ExportLines(S) == {n \o <<SPACE>> \o p : n \in S, p \in Paths} \cup {nA}

\* %export_library
ExportLibrary(line, io) ==
    /\ magics # 0
    /\ LET r == export_library(Registry, files, line, io) IN
       /\ files' = r.fs
       /\ last' = Report("export_library", line, r.msg, r.lib, r.err, "none",
                         "", 0)
    /\ UNCHANGED <<loads, registries, magics, meta_path, sys_modules, user_ns,
                   held, module_ns>>

\* The dotted names asked of the finders and of the import statement.
ModuleNames(S) == S \cup {sCell \o <<DOT>> \o n : n \in S}

\* A direct call of find_spec on the i-th entry of sys.meta_path.
FindSpec(i, fullname) ==
    /\ i \in 1..Len(meta_path)
    /\ meta_path[i].kind = "cell"
    /\ LET r == find_spec(registries[meta_path[i].cls], fullname, sys_modules,
                          meta_path[i].cls) IN
       /\ held' = r.spec
       /\ sys_modules' = r.sm
       /\ last' = Report("find_spec", fullname,
                         IF r.spec.kind = "None" THEN "not_handled" ELSE "spec",
                         r.spec.lib_name, "", "none", "", meta_path[i].cls)
    /\ UNCHANGED <<loads, registries, magics, meta_path, user_ns, files,
                   module_ns>>

\* spec.loader.exec_module(module) on a new module, for the spec last returned.
ExecModule ==
    /\ held.kind = "spec"
    /\ LET e == exec_module(held, EmptyDict) IN
       /\ module_ns' = e.ns
       /\ last' = Report("exec_module", held.name, "", e.lib, e.err, e.raised,
                         "", 0)
    /\ UNCHANGED <<loads, registries, magics, meta_path, sys_modules, user_ns,
                   files, held>>

\* import <name>
ImportModule(name) ==
    /\ LET r == FindAndLoad(name, sys_modules) IN
       /\ sys_modules' = r.sm
       /\ last' = Report("import", name, "", <<>>, "", r.raised, r.by, 0)
    /\ UNCHANGED <<loads, registries, magics, meta_path, user_ns, files, held,
                   module_ns>>

\* The user's cells, for the library names of S and the cell bodies of C.
Mark(S, C) == \E line \in LibraryLines(S), cell \in C : Library(line, cell)

RunImportLibrary(S) == \E line \in LibraryLines(S) : ImportLibrary(line)

RunExportLibrary(S) ==
    \E line \in ExportLines(S), io \in IOOutcomes : ExportLibrary(line, io)

CallFindSpec(M) == \E i \in 1..Len(meta_path), n \in M : FindSpec(i, n)

RunImport(S) == \E n \in {sCell} \cup ModuleNames(S) : ImportModule(n)

Next ==
    \/ Install
    \/ Mark(Names, Sources)
    \/ RunImportLibrary(Names)
    \/ RunExportLibrary(Names)
    \/ CallFindSpec({sCell} \cup ModuleNames(Names))
    \/ ExecModule
    \/ RunImport(Names)

\* The whole session.
Spec == Init /\ [][Next]_vars

\* The session of a user who marks, runs in place and exports.
NextDirectives ==
    \/ Install
    \/ Mark({nA, nSp}, {SrcTwo, SrcRaise, SrcExit})
    \/ RunImportLibrary({nA, nSp})
    \/ RunExportLibrary({nA, nSp})

SpecDirectives == Init /\ [][NextDirectives]_vars

\* The session of a user who marks and calls the finder and the loader.
NextResolver ==
    \/ Install
    \/ Mark({nA, nDot}, Sources)
    \/ CallFindSpec(ModuleNames({nA, nDot}))
    \/ ExecModule

SpecResolver == Init /\ [][NextResolver]_vars

\* The session of a user who marks and uses the import statement.
NextImport ==
    \/ Install
    \/ Mark({nA, nCsv}, Sources)
    \/ RunImport({nA, nCsv})

SpecImport == Init /\ [][NextImport]_vars

----------------------------------------------------------------------------
(* Properties of the directives, checked under SpecDirectives.             *)

Installed == magics # 0

\* C1: a mark of a name that is not empty after trimming leaves get(name)
\* equal to the marked text, whatever was stored before (overwrite, no merge),
\* and leaves every other entry as it was; no other operation changes an
\* existing registry; no name ever leaves a registry.
MarkStoresLastWrite ==
    [][/\ (last'.op = "library" /\ strip(last'.arg) # <<>>) =>
            LET n == strip(last'.arg) IN
            /\ last'.msg = "stored"
            /\ DOMAIN Registry' = (DOMAIN Registry) \cup {n}
            /\ \A cell \in Sources :
                   Library(last'.arg, cell) => Registry'[n] = cell
            /\ \A m \in (DOMAIN Registry) \ {n} : Registry'[m] = Registry[m]
       /\ \A g \in 1..Len(registries) :
            /\ g <= Len(registries')
            /\ (DOMAIN registries[g]) \subseteq DOMAIN registries'[g]
            /\ last'.op # "library" => registries'[g] = registries[g]
            /\ g # magics => registries'[g] = registries[g]
      ]_vars

\* C1's case: "a" was exported while it held SrcOne, was marked again with
\* SrcTwo, and the other entry is still there.
MarkOverwrote ==
    /\ Installed
    /\ last.op = "library" /\ last.msg = "stored" /\ last.lib = nA
    /\ DOMAIN Registry = {nA, nSp}
    /\ Registry[nA] = SrcRaise
    /\ Registry[nSp] = SrcExit
    /\ pOut \in DOMAIN files /\ files[pOut] = SrcTwo

\* C4: a mark whose name is empty after trimming, an export whose argument
\* count is not two, and an import or export of an unregistered name only
\* report: registry, caller scope, file system and import state stay as they
\* were.
Untouched ==
    /\ registries' = registries
    /\ user_ns' = user_ns
    /\ files' = files
    /\ sys_modules' = sys_modules
    /\ meta_path' = meta_path

RejectedChangesNothing ==
    [][/\ (last'.op = "library" /\ strip(last'.arg) = <<>>) =>
            last'.msg = "usage" /\ Untouched
       /\ (last'.op = "import_library"
              /\ strip(last'.arg) \notin DOMAIN Registry) =>
            last'.msg = "not_found" /\ last'.raised = "none" /\ Untouched
       /\ (last'.op = "export_library" /\ Len(split(last'.arg)) # 2) =>
            last'.msg = "usage" /\ Untouched
       /\ (last'.op = "export_library" /\ Len(split(last'.arg)) = 2
              /\ split(last'.arg)[1] \notin DOMAIN Registry) =>
            last'.msg = "not_found" /\ Untouched
       /\ (last'.msg \in {"usage", "not_found"}) => Untouched
      ]_vars

\* C4's case: an import of an unregistered name was refused while registry,
\* scope and file system all held something.
RejectedWithState ==
    /\ Installed
    /\ last.op = "import_library" /\ last.msg = "not_found" /\ last.arg = nSp
    /\ DOMAIN Registry = {nA}
    /\ DOMAIN user_ns # {}
    /\ pOut \in DOMAIN files

\* C2 as claimed: for every registered name n and every path p, an export of
\* n to p leaves p holding exactly the registered text of n (read for the
\* exports during which open and write raise nothing).
ExportWritesEveryNameAndPath ==
    [][(last'.op = "export_library" /\ last'.msg # "error_exporting") =>
           \A n \in DOMAIN Registry, p \in Paths :
               last'.arg = n \o <<SPACE>> \o p =>
                   (p \in DOMAIN files' /\ files'[p] = Registry[n])
      ]_vars

\* C2, amended: an export that reports success was given exactly two words, a
\* registered name and a path, and has left the path holding exactly the
\* registered text of the name (nothing of an earlier content), every other
\* file as it was; an export of a registered name reports success or an I/O
\* error; no export changes the registry or the caller's scope.
ExportRoundTrip ==
    [][last'.op = "export_library" =>
           LET parts == split(last'.arg) IN
           /\ last'.msg = "exported" =>
                  /\ Len(parts) = 2
                  /\ parts[1] \in DOMAIN Registry
                  /\ files' = Put(files, parts[2], Registry[parts[1]])
           /\ (Len(parts) = 2 /\ parts[1] \in DOMAIN Registry) =>
                  /\ last'.msg \in {"exported", "error_exporting"}
                  /\ last'.lib = parts[1]
                  /\ parts[2] \notin Openable => last'.msg = "error_exporting"
           /\ last'.msg # "exported" =>
                  \A p \in DOMAIN files :
                      p \in DOMAIN files' /\ (files'[p] # files[p] => p \in Openable)
           /\ registries' = registries
           /\ user_ns' = user_ns
           /\ last'.raised = "none"
      ]_vars

\* C2's case: "a" was exported over a file that held another text.
ReExported ==
    /\ Installed
    /\ last.op = "export_library" /\ last.msg = "exported" /\ last.lib = nA
    /\ Registry[nA] = SrcRaise
    /\ files[pOut] = SrcRaise
    /\ nSp \in DOMAIN Registry /\ Registry[nSp] = SrcExit
    /\ "x" \in DOMAIN user_ns /\ user_ns["x"] = 2

\* C3 as claimed: whatever the stored text raises during import_library is
\* caught and reported with the library name, and nothing escapes the call.
ImportCatchesEverything ==
    [][(/\ last'.op = "import_library"
        /\ strip(last'.arg) \in DOMAIN Registry
        /\ exec(Registry[strip(last'.arg)], user_ns).exc # "none") =>
           /\ last'.raised = "none"
           /\ last'.msg = "error_importing"
           /\ last'.lib = strip(last'.arg)
      ]_vars

\* C3, amended: an exception of a class derived from Exception raised by the
\* stored text is caught and reported with the library name and the error, and
\* does not escape the call; one derived from BaseException only (SystemExit)
\* escapes it.  Either way the bindings made before the raise stay in the
\* caller's scope, and registry and files are as before.
ImportCatchesExceptions ==
    [][(last'.op = "import_library" /\ strip(last'.arg) \in DOMAIN Registry) =>
           LET n == strip(last'.arg)
               r == exec(Registry[n], user_ns) IN
           /\ r.exc \in ExceptionClasses =>
                  /\ last'.raised = "none"
                  /\ last'.msg = "error_importing"
                  /\ last'.lib = n
                  /\ last'.err = r.exc
           /\ (r.exc # "none" /\ r.exc \notin ExceptionClasses) =>
                  last'.raised = r.exc
           /\ r.exc = "none" => last'.raised = "none" /\ last'.msg = "imported"
           /\ user_ns' = r.ns
           /\ registries' = registries
           /\ files' = files
      ]_vars

\* C3's case: the text of "a b" raised ValueError after binding y, and the
\* error was reported.
ImportReportedError ==
    /\ Installed
    /\ last.op = "import_library" /\ last.msg = "error_importing"
    /\ last.lib = nSp /\ last.err = "ValueError" /\ last.raised = "none"
    /\ "y" \in DOMAIN user_ns /\ user_ns["y"] = 2

----------------------------------------------------------------------------
(* Properties of the finder and the loader, checked under SpecResolver.    *)

Dotted(n) == \E k \in 1..Len(n) : n[k] = DOT

\* C5 as claimed: for every library name n, find_spec of "cell." + n returns a
\* spec exactly when n is registered, and the spec wraps the registered text.
ResolvesEveryRegisteredName ==
    [][last'.op = "find_spec" =>
           LET reg == registries[last'.cls] IN
           \A n \in Names :
               last'.arg = sCell \o <<DOT>> \o n =>
                   /\ (held'.kind = "spec") <=> (n \in DOMAIN reg)
                   /\ held'.kind = "spec" => held'.code = reg[n]
      ]_vars

\* C5, amended: for every library name n, find_spec of "cell." + n returns a
\* spec exactly when n is registered and holds no dot; the spec then wraps the
\* registered text of n under the name asked.  Under the sentinel, a name of
\* three or more segments and a name whose second segment is not registered
\* get None; find_spec raises nothing and, but for the sentinel alone, leaves
\* sys.modules as it was.
ResolvesUndottedRegisteredName ==
    [][last'.op = "find_spec" =>
           LET reg   == registries[last'.cls]
               parts == split_dot(last'.arg) IN
           /\ \A n \in Names :
                  last'.arg = sCell \o <<DOT>> \o n =>
                      ((held'.kind = "spec") <=> (n \in DOMAIN reg /\ ~Dotted(n)))
           /\ (parts[1] = sCell /\ held'.kind = "spec") =>
                  /\ Len(parts) = 2
                  /\ held'.name = last'.arg
                  /\ held'.lib_name = parts[2]
                  /\ held'.code = reg[parts[2]]
           /\ (parts[1] = sCell /\ Len(parts) >= 3) => held' = None
           /\ (parts[1] = sCell /\ Len(parts) = 2 /\ parts[2] \notin DOMAIN reg) =>
                  held' = None
           /\ held'.kind # "spec" => held' = None /\ last'.msg = "not_handled"
           /\ last'.raised = "none"
           /\ Len(parts) >= 2 => sys_modules' = sys_modules
      ]_vars

\* C5's case: with "a" and "a.b" both registered, "cell.a" was resolved to a
\* unit holding the registered text of "a".
ResolvedNamespacedName ==
    /\ Installed
    /\ last.op = "find_spec" /\ last.arg = sCell \o <<DOT>> \o nA
    /\ last.cls = magics
    /\ DOMAIN Registry = {nA, nDot}
    /\ held.kind = "spec" /\ held.lib_name = nA /\ held.code = Registry[nA]

\* C7 as claimed: executing the unit resolved for a registered name leaves in
\* the unit's own namespace the bindings that executing the registry's text of
\* that name, as it is when the unit is executed, leaves in an empty one, and
\* leaves the caller's scope alone.
LoadRunsCurrentSource ==
    [][(/\ last'.op = "exec_module"
        /\ held.name = sCell \o <<DOT>> \o held.lib_name
        /\ held.lib_name \in DOMAIN Registry) =>
           /\ module_ns' = exec(Registry[held.lib_name], EmptyDict).ns
           /\ user_ns' = user_ns
      ]_vars

\* C7, amended: a unit holds the registry's text of its name as it was when
\* find_spec made the unit, and keeps it whatever is marked later; executing
\* the unit leaves in the unit's own namespace the bindings that executing that
\* held text leaves in an empty one, and leaves the caller's scope, the
\* registry and sys.modules alone.
LoadRunsResolvedSource ==
    [][/\ (last'.op = "find_spec" /\ held'.kind = "spec") =>
            /\ held'.lib_name \in DOMAIN registries[last'.cls]
            /\ held'.code = registries[last'.cls][held'.lib_name]
       /\ last'.op # "find_spec" => held' = held
       /\ last'.op = "exec_module" =>
            /\ module_ns' = exec(held.code, EmptyDict).ns
            /\ user_ns' = user_ns
            /\ registries' = registries
            /\ sys_modules' = sys_modules
      ]_vars

\* C7's case: "a" was marked again after its unit was made, and the unit,
\* executed, bound what the earlier text binds.
LoadedEarlierSource ==
    /\ Installed
    /\ last.op = "exec_module" /\ last.raised = "none"
    /\ held.name = sCell \o <<DOT>> \o nA /\ held.lib_name = nA
    /\ nA \in DOMAIN Registry /\ Registry[nA] = SrcTwo
    /\ held.code = SrcOne
    /\ module_ns = exec(SrcOne, EmptyDict).ns
    /\ user_ns = EmptyDict

\* C8 as claimed: whatever the stored text raises while the unit executes
\* leaves exec_module as an ImportError naming the library.
LoadWrapsEverything ==
    [][(last'.op = "exec_module" /\ exec(held.code, EmptyDict).exc # "none") =>
           /\ last'.raised = "ImportError"
           /\ last'.lib = held.lib_name
      ]_vars

\* C8, amended: an exception of a class derived from Exception raised while the
\* unit executes leaves exec_module as an ImportError naming the library and
\* the error; one derived from BaseException only (SystemExit) leaves it as it
\* was raised.
LoadWrapsExceptions ==
    [][last'.op = "exec_module" =>
           LET r == exec(held.code, EmptyDict) IN
           /\ r.exc \in ExceptionClasses =>
                  /\ last'.raised = "ImportError"
                  /\ last'.lib = held.lib_name
                  /\ last'.err = r.exc
           /\ (r.exc # "none" /\ r.exc \notin ExceptionClasses) =>
                  last'.raised = r.exc
           /\ r.exc = "none" => last'.raised = "none"
      ]_vars

\* C8's case: the text of "a.b", resolved by its bare name, did not compile and
\* the load failed with an ImportError naming "a.b".
LoadFailedWrapped ==
    /\ last.op = "exec_module" /\ last.arg = nDot
    /\ last.raised = "ImportError" /\ last.lib = nDot /\ last.err = "SyntaxError"

----------------------------------------------------------------------------
(* Properties of the import statement, checked under SpecImport.           *)

CellFinders == {i \in 1..Len(meta_path) : meta_path[i].kind = "cell"}

\* C6 as claimed: an import of a registered name that the interpreter's own
\* finders resolve too is served by them, not from the registry.
RealModuleWins ==
    [][(/\ last'.op = "import"
        /\ last'.arg \in RealModules
        /\ Installed
        /\ last'.arg \in DOMAIN Registry) =>
           last'.by = "real"
      ]_vars

\* C6, amended: the bare fallback comes first.  An import of a registered
\* one-segment name that is not yet in sys.modules is served from the
\* registry, or fails as the registered text fails, also when the
\* interpreter's own finders resolve the name; they serve a name only when it
\* is in sys.modules already, imported before it was marked, or no finder's
\* registry holds it.
RegisteredNameShadows ==
    [][(last'.op = "import" /\ last'.arg \in Names) =>
           LET n == last'.arg IN
           /\ (/\ Installed
               /\ n \in DOMAIN Registry
               /\ ~Dotted(n)
               /\ n \notin DOMAIN sys_modules) =>
                  LET e == exec(Registry[n], EmptyDict) IN
                  /\ last'.by # "real"
                  /\ e.exc = "none" =>
                         /\ last'.by = "registry"
                         /\ last'.raised = "none"
                         /\ sys_modules'[n].origin = "registry"
                         /\ sys_modules'[n].ns = e.ns
                  /\ e.exc # "none" =>
                         /\ n \notin DOMAIN sys_modules'
                         /\ last'.raised =
                                IF e.exc \in ExceptionClasses
                                THEN "ImportError" ELSE e.exc
           /\ last'.by = "real" =>
                  /\ n \in RealModules
                  /\ \/ n \in DOMAIN sys_modules /\ sys_modules[n].origin = "real"
                     \/ \A i \in CellFinders :
                            n \notin DOMAIN registries[meta_path[i].cls]
      ]_vars

\* C6's case: "csv", which the interpreter's own finders resolve, was marked
\* and then imported: the module is the registry's.
ShadowedRealModule ==
    /\ Installed
    /\ last.op = "import" /\ last.arg = nCsv /\ last.by = "registry"
    /\ nCsv \in DOMAIN sys_modules
    /\ sys_modules[nCsv].origin = "registry"
    /\ sys_modules[nCsv].ns = exec(Registry[nCsv], EmptyDict).ns

\* C9 as claimed: the container made for "cell" advertises the registered
\* names, also those marked after it was made, and once "cell" has been
\* resolved an import of cell.N for a registered N is served from the registry.
PseudoPackageFollowsRegistry ==
    [][Installed' =>
           /\ sCell \in DOMAIN sys_modules' =>
                  sys_modules'[sCell].all = DOMAIN Registry'
           /\ \A n \in Names :
                  (/\ last'.op = "import"
                   /\ last'.arg = sCell \o <<DOT>> \o n
                   /\ sCell \in DOMAIN sys_modules
                   /\ n \in DOMAIN Registry
                   /\ ~Dotted(n)) =>
                      last'.by = "registry"
      ]_vars

====
